---- MODULE Spec2Model ----
(***************************************************************************)
(* Smart chatbot with query routing (LLM / RAG / web search).              *)
(*                                                                         *)
(* The model covers the two variants of the application:                   *)
(*   "base"     : src/chatbot_app.py          (IntelligentRouter,          *)
(*                                             ChatbotManager)             *)
(*   "enhanced" : src/chatbot_app_enhanced.py (EnhancedRouter,             *)
(*                                             EnhancedChatbotManager)     *)
(*                                                                         *)
(* Python strings are sequences of one-character strings, so that          *)
(* lower(), startswith() and the substring test `k in s` are computed      *)
(* as the code computes them.  Confidences are in hundredths               *)
(* (1.0 = 100, 0.95 = 95, ...).                                            *)
(***************************************************************************)
EXTENDS Integers, Sequences, FiniteSets, TLC

VARIABLES
    app,              \* which variant runs this session: "base" | "enhanced"
    messages,         \* st.session_state.messages (the displayed list)
    chat_history,     \* st.session_state.chat_history.messages
    vectorstore,      \* st.session_state.vectorstore (None or an index)
    processed_files,  \* st.session_state.processed_files
    route_stats,      \* st.session_state.route_stats (enhanced only)
    total_queries,    \* st.session_state.total_queries (enhanced only)
    last,             \* observation of the last handler that ran
    rq                \* observation of a direct call of a pure function

vars == << app, messages, chat_history, vectorstore, processed_files,
           route_stats, total_queries, last, rq >>

(***************************************************************************)
(* Strings                                                                 *)
(***************************************************************************)
Range(s) == { s[i] : i \in DOMAIN s }

UpperToLower ==
    ("A" :> "a") @@ ("B" :> "b") @@ ("C" :> "c") @@ ("D" :> "d") @@
    ("E" :> "e") @@ ("F" :> "f") @@ ("G" :> "g") @@ ("H" :> "h") @@
    ("I" :> "i") @@ ("J" :> "j") @@ ("K" :> "k") @@ ("L" :> "l") @@
    ("M" :> "m") @@ ("N" :> "n") @@ ("O" :> "o") @@ ("P" :> "p") @@
    ("Q" :> "q") @@ ("R" :> "r") @@ ("S" :> "s") @@ ("T" :> "t") @@
    ("U" :> "u") @@ ("V" :> "v") @@ ("W" :> "w") @@ ("X" :> "x") @@
    ("Y" :> "y") @@ ("Z" :> "z")

\* str.lower(); the result is built once, as a sequence
Lower(s) ==
    LET lowered == [ i \in 1..Len(s) |->
            IF s[i] \in DOMAIN UpperToLower THEN UpperToLower[s[i]] ELSE s[i] ]
    IN  SubSeq(lowered, 1, Len(lowered))

\* s.startswith(p)
StartsWith(s, p) ==
    /\ Len(p) <= Len(s)
    /\ \A j \in 1..Len(p) : s[j] = p[j]

\* k in s  (substring test)
Contains(s, k) ==
    \E i \in 1..(Len(s) - Len(k) + 1) :
        \A j \in 1..Len(k) : s[i + j - 1] = k[j]

\* any(k in s for k in keywords)
AnyIn(keywords, s) == \E n \in DOMAIN keywords : Contains(s, keywords[n])

Digits == {"0", "1", "2", "3", "4", "5", "6", "7", "8", "9"}

(***************************************************************************)
(* Keyword lists of the routers.  The four helper predicates and their     *)
(* lists are textually identical in IntelligentRouter and EnhancedRouter;  *)
(* the stage-1 and stage-6 lists differ (E_ = enhanced, I_ = base).        *)
(***************************************************************************)
context_indicators ==
    << <<" ","i","t"," ">>,
       <<" ","i","t","s"," ">>,
       <<" ","t","h","a","t"," ">>,
       <<" ","t","h","i","s"," ">>,
       <<" ","t","h","e","s","e"," ">>,
       <<" ","t","h","o","s","e"," ">>,
       <<" ","t","h","e","m"," ">>,
       <<" ","t","h","e","y"," ">>,
       <<" ","t","h","e","i","r"," ">>,
       <<"t","h","e"," ","r","e","s","u","l","t">>,
       <<"t","h","e"," ","a","n","s","w","e","r">>,
       <<"y","o","u","r"," ","r","e","s","p","o","n","s","e">>,
       <<"y","o","u"," ","s","a","i","d">>,
       <<"a","b","o","v","e">>,
       <<"p","r","e","v","i","o","u","s">>,
       <<"e","a","r","l","i","e","r">>,
       <<"b","e","f","o","r","e">>,
       <<"a","l","s","o">>,
       <<"a","n","d">>,
       <<"t","h","e","n">>,
       <<"n","e","x","t">>,
       <<"n","o","w">>,
       <<"a","f","t","e","r"," ","t","h","a","t">>,
       <<"a","d","d"," ","t","o">>,
       <<"s","u","b","t","r","a","c","t"," ","f","r","o","m">>,
       <<"m","u","l","t","i","p","l","y"," ","b","y">>,
       <<"d","i","v","i","d","e"," ","b","y">>,
       <<"p","l","u","s">>,
       <<"m","i","n","u","s">>,
       <<"t","i","m","e","s">> >>

math_operators ==
    << <<"+">>,
       <<"-">>,
       <<"*">>,
       <<"/">>,
       <<"=">>,
       <<"^">> >>

math_keywords ==
    << <<"c","a","l","c","u","l","a","t","e">>,
       <<"c","o","m","p","u","t","e">>,
       <<"s","o","l","v","e">>,
       <<"e","v","a","l","u","a","t","e">>,
       <<"a","d","d">>,
       <<"s","u","m">>,
       <<"p","l","u","s">>,
       <<"a","d","d","i","t","i","o","n">>,
       <<"s","u","b","t","r","a","c","t">>,
       <<"m","i","n","u","s">>,
       <<"d","i","f","f","e","r","e","n","c","e">>,
       <<"m","u","l","t","i","p","l","y">>,
       <<"t","i","m","e","s">>,
       <<"p","r","o","d","u","c","t">>,
       <<"d","i","v","i","d","e">>,
       <<"q","u","o","t","i","e","n","t">>,
       <<"e","q","u","a","l","s">>,
       <<"e","q","u","a","l"," ","t","o">>,
       <<"s","q","u","a","r","e">>,
       <<"p","o","w","e","r">>,
       <<"r","o","o","t">>,
       <<"p","e","r","c","e","n","t","a","g","e">>,
       <<"p","e","r","c","e","n","t">> >>

temporal_words ==
    << <<"c","u","r","r","e","n","t">>,
       <<"l","a","t","e","s","t">>,
       <<"t","o","d","a","y">>,
       <<"n","o","w">>,
       <<"r","e","c","e","n","t">>,
       <<"t","h","i","s"," ","w","e","e","k">>,
       <<"t","h","i","s"," ","m","o","n","t","h">>,
       <<"r","i","g","h","t"," ","n","o","w">>,
       <<"l","i","v","e">> >>

realtime_data_types ==
    << <<"p","r","i","c","e">>,
       <<"r","a","t","e">>,
       <<"s","t","o","c","k">>,
       <<"m","a","r","k","e","t">>,
       <<"e","x","c","h","a","n","g","e">>,
       <<"c","r","y","p","t","o">>,
       <<"b","i","t","c","o","i","n">>,
       <<"t","r","a","d","i","n","g">>,
       <<"v","a","l","u","e">>,
       <<"w","o","r","t","h">>,
       <<"n","e","w","s">>,
       <<"b","r","e","a","k","i","n","g">>,
       <<"u","p","d","a","t","e">>,
       <<"h","a","p","p","e","n","i","n","g">>,
       <<"e","v","e","n","t">>,
       <<"w","e","a","t","h","e","r">>,
       <<"t","e","m","p","e","r","a","t","u","r","e">>,
       <<"f","o","r","e","c","a","s","t">>,
       <<"c","l","i","m","a","t","e">>,
       <<"s","c","o","r","e">>,
       <<"g","a","m","e">>,
       <<"m","a","t","c","h">>,
       <<"t","o","u","r","n","a","m","e","n","t">>,
       <<"t","r","a","f","f","i","c">>,
       <<"s","t","a","t","u","s">>,
       <<"a","v","a","i","l","a","b","l","e">>,
       <<"o","p","e","n">>,
       <<"c","l","o","s","e","d">> >>

doc_keywords ==
    << <<"d","o","c","u","m","e","n","t">>,
       <<"f","i","l","e">>,
       <<"p","d","f">>,
       <<"t","e","x","t">>,
       <<"p","a","p","e","r">>,
       <<"a","r","t","i","c","l","e">>,
       <<"u","p","l","o","a","d","e","d">>,
       <<"a","t","t","a","c","h","m","e","n","t">>,
       <<"i","n"," ","t","h","e">>,
       <<"f","r","o","m"," ","t","h","e">>,
       <<"a","c","c","o","r","d","i","n","g"," ","t","o">>,
       <<"w","h","a","t"," ","d","o","e","s">>,
       <<"s","u","m","m","a","r","i","z","e">>,
       <<"e","x","t","r","a","c","t">>,
       <<"c","o","n","t","e","n","t">>,
       <<"w","r","i","t","t","e","n">>,
       <<"m","e","n","t","i","o","n","e","d">> >>

E_simple_phrases ==
    << <<"h","e","l","l","o">>,
       <<"h","i"," ">>,
       <<"h","e","y"," ">>,
       <<"g","o","o","d"," ","m","o","r","n","i","n","g">>,
       <<"g","o","o","d"," ","a","f","t","e","r","n","o","o","n">>,
       <<"g","o","o","d"," ","e","v","e","n","i","n","g">>,
       <<"t","h","a","n","k","s">>,
       <<"t","h","a","n","k"," ","y","o","u">>,
       <<"b","y","e">>,
       <<"g","o","o","d","b","y","e">>,
       <<"h","o","w"," ","a","r","e"," ","y","o","u">>,
       <<"w","h","a","t","'","s"," ","u","p">> >>

E_llm_indicators ==
    << <<"e","x","p","l","a","i","n">>,
       <<"h","o","w"," ","d","o","e","s">>,
       <<"w","h","y">>,
       <<"w","h","a","t"," ","i","s">>,
       <<"w","h","o"," ","i","s">>,
       <<"d","e","s","c","r","i","b","e">>,
       <<"t","e","l","l"," ","m","e"," ","a","b","o","u","t">>,
       <<"c","a","n"," ","y","o","u">>,
       <<"h","e","l","p"," ","m","e">>,
       <<"w","r","i","t","e">>,
       <<"c","r","e","a","t","e">>,
       <<"g","e","n","e","r","a","t","e">>,
       <<"c","o","m","p","a","r","e">>,
       <<"d","i","f","f","e","r","e","n","c","e"," ","b","e","t","w","e","e","n">> >>

I_simple_phrases ==
    << <<"h","e","l","l","o">>,
       <<"h","i"," ">>,
       <<"h","e","y"," ">>,
       <<"g","o","o","d"," ","m","o","r","n","i","n","g">>,
       <<"g","o","o","d"," ","a","f","t","e","r","n","o","o","n">>,
       <<"g","o","o","d"," ","e","v","e","n","i","n","g">>,
       <<"t","h","a","n","k","s">>,
       <<"t","h","a","n","k"," ","y","o","u">>,
       <<"b","y","e">>,
       <<"g","o","o","d","b","y","e">>,
       <<"h","o","w"," ","a","r","e"," ","y","o","u">>,
       <<"w","h","a","t","'","s"," ","u","p">>,
       <<"s","u","p">>,
       <<"y","o"," ">> >>

I_llm_indicators ==
    << <<"e","x","p","l","a","i","n">>,
       <<"h","o","w"," ","d","o","e","s">>,
       <<"w","h","y">>,
       <<"w","h","a","t"," ","i","s">>,
       <<"w","h","o"," ","i","s">>,
       <<"d","e","s","c","r","i","b","e">>,
       <<"t","e","l","l"," ","m","e"," ","a","b","o","u","t">>,
       <<"c","a","n"," ","y","o","u">>,
       <<"h","e","l","p"," ","m","e">>,
       <<"i"," ","n","e","e","d">>,
       <<"i"," ","w","a","n","t">>,
       <<"w","r","i","t","e">>,
       <<"c","r","e","a","t","e">>,
       <<"g","e","n","e","r","a","t","e">>,
       <<"m","a","k","e">>,
       <<"c","o","m","p","a","r","e">>,
       <<"d","i","f","f","e","r","e","n","c","e"," ","b","e","t","w","e","e","n">> >>

Q_hello ==   \* Hello, how are you?
    <<"H","e","l","l","o",","," ","h","o","w"," ","a","r","e"," ","y","o","u","?">>

Q_according ==   \* According to the document, what is the conclusion?
    <<"A","c","c","o","r","d","i","n","g"," ","t","o"," ","t","h","e"," ","d","o","c","u","m","e","n","t",","," ","w","h","a","t"," ","i","s"," ","t","h","e"," ","c","o","n","c","l","u","s","i","o","n","?">>

Q_stock ==   \* What's the current stock price of Acme Corp?
    <<"W","h","a","t","'","s"," ","t","h","e"," ","c","u","r","r","e","n","t"," ","s","t","o","c","k"," ","p","r","i","c","e"," ","o","f"," ","A","c","m","e"," ","C","o","r","p","?">>

Q_about_it ==   \* what about it?
    <<"w","h","a","t"," ","a","b","o","u","t"," ","i","t","?">>

Q_current ==   \* current
    <<"c","u","r","r","e","n","t">>

Q_summarize_also ==   \* Also summarize the PDF
    <<"A","l","s","o"," ","s","u","m","m","a","r","i","z","e"," ","t","h","e"," ","P","D","F">>

Q_percent ==   \* What is 15 percent of 80
    <<"W","h","a","t"," ","i","s"," ","1","5"," ","p","e","r","c","e","n","t"," ","o","f"," ","8","0">>

Q_know ==   \* I know
    <<"I"," ","k","n","o","w">>

Q_sup_news ==   \* Sup, latest news
    <<"S","u","p",","," ","l","a","t","e","s","t"," ","n","e","w","s">>

Q_latest_ai ==   \* What's the latest news about AI?
    <<"W","h","a","t","'","s"," ","t","h","e"," ","l","a","t","e","s","t"," ","n","e","w","s"," ","a","b","o","u","t"," ","A","I","?">>

Q_weather ==   \* What's the weather today?
    <<"W","h","a","t","'","s"," ","t","h","e"," ","w","e","a","t","h","e","r"," ","t","o","d","a","y","?">>

Q_tesla ==   \* Current stock price of Tesla
    <<"C","u","r","r","e","n","t"," ","s","t","o","c","k"," ","p","r","i","c","e"," ","o","f"," ","T","e","s","l","a">>

Q_election ==   \* Who won the 2024 election?
    <<"W","h","o"," ","w","o","n"," ","t","h","e"," ","2","0","2","4"," ","e","l","e","c","t","i","o","n","?">>

Q_news_today ==   \* What happened in the news today?
    <<"W","h","a","t"," ","h","a","p","p","e","n","e","d"," ","i","n"," ","t","h","e"," ","n","e","w","s"," ","t","o","d","a","y","?">>

F_greeting == <<"H","e","l","l","o"," ">>   \* "Hello "
F_continuation == <<"a","l","s","o"," ">>   \* "also "
F_math == <<"2","+","2"," ">>   \* "2+2 "
F_doc == <<"P","D","F"," ">>   \* "PDF "
F_temporal == <<"l","a","t","e","s","t"," ">>   \* "latest "
F_volatile == <<"n","e","w","s"," ">>   \* "news "
F_general == <<"e","x","p","l","a","i","n"," ">>   \* "explain "

WebNote ==   \* " (Note: Web search unavailable, using general knowledge)"
    <<" ","(","N","o","t","e",":"," ","W","e","b"," ","s","e","a","r","c","h"," ","u","n","a","v","a","i","l","a","b","l","e",","," ","u","s","i","n","g"," ","g","e","n","e","r","a","l"," ","k","n","o","w","l","e","d","g","e",")">>
(***************************************************************************)
(* The helper predicates of the routers                                    *)
(***************************************************************************)
\* has_conversation_context without the test for an empty conversation
has_conversation_context_nocheck(query, history) ==
    AnyIn(context_indicators, Lower(query))

\* _has_conversation_context
has_conversation_context(query, history) ==
    IF Len(history) = 0
    THEN FALSE
    ELSE AnyIn(context_indicators, Lower(query))

\* _is_mathematical
is_mathematical(query) ==
    LET query_lower       == Lower(query)
        has_operators     == AnyIn(math_operators, query)
        has_math_keywords == AnyIn(math_keywords, query_lower)
        has_numbers       == \E i \in DOMAIN query : query[i] \in Digits
    IN  has_operators \/ (has_math_keywords /\ has_numbers)

\* needs_realtime_data with either family sufficing
needs_realtime_data_either(query) ==
    LET query_lower == Lower(query)
    IN  AnyIn(temporal_words, query_lower)
            \/ AnyIn(realtime_data_types, query_lower)

\* _needs_realtime_data
needs_realtime_data(query) ==
    LET query_lower       == Lower(query)
        has_temporal      == AnyIn(temporal_words, query_lower)
        has_realtime_type == AnyIn(realtime_data_types, query_lower)
    IN  has_temporal /\ has_realtime_type

\* references_documents without the has_documents test
references_documents_nocheck(query, has_documents) ==
    AnyIn(doc_keywords, Lower(query))

\* _references_documents
references_documents(query, has_documents) ==
    IF ~has_documents
    THEN FALSE
    ELSE AnyIn(doc_keywords, Lower(query))

(***************************************************************************)
(* EnhancedRouter.route_query: returns route, confidence and reason        *)
(***************************************************************************)
\* E_route_query with the document stage tried before the continuation stage
E_route_query_doc_first(query, has_documents, history) ==
    LET query_lower == Lower(query) IN
    IF \E n \in DOMAIN E_simple_phrases :
            StartsWith(query_lower, E_simple_phrases[n])
    THEN [route |-> "llm", confidence |-> 100, reason |-> "Conversational"]
    ELSE IF references_documents(query, has_documents)
    THEN [route |-> "rag", confidence |-> 95, reason |-> "Document reference"]
    ELSE IF has_conversation_context(query, history)
    THEN [route |-> "llm", confidence |-> 100, reason |-> "Context reference"]
    ELSE IF is_mathematical(query)
    THEN [route |-> "llm", confidence |-> 100, reason |-> "Mathematical"]
    ELSE IF needs_realtime_data(query)
    THEN [route |-> "web", confidence |-> 95, reason |-> "Real-time data"]
    ELSE IF AnyIn(E_llm_indicators, query_lower)
    THEN [route |-> "llm", confidence |-> 90, reason |-> "General knowledge"]
    ELSE [route |-> "llm", confidence |-> 80, reason |-> "Default"]

E_route_query(query, has_documents, history) ==
    LET query_lower == Lower(query) IN
    \* STAGE 1
    IF \E n \in DOMAIN E_simple_phrases :
            StartsWith(query_lower, E_simple_phrases[n])
    THEN [route |-> "llm", confidence |-> 100, reason |-> "Conversational"]
    \* STAGE 2
    ELSE IF has_conversation_context(query, history)
    THEN [route |-> "llm", confidence |-> 100, reason |-> "Context reference"]
    \* STAGE 3
    ELSE IF is_mathematical(query)
    THEN [route |-> "llm", confidence |-> 100, reason |-> "Mathematical"]
    \* STAGE 4
    ELSE IF references_documents(query, has_documents)
    THEN [route |-> "rag", confidence |-> 95, reason |-> "Document reference"]
    \* STAGE 5
    ELSE IF needs_realtime_data(query)
    THEN [route |-> "web", confidence |-> 95, reason |-> "Real-time data"]
    \* STAGE 6
    ELSE IF AnyIn(E_llm_indicators, query_lower)
    THEN [route |-> "llm", confidence |-> 90, reason |-> "General knowledge"]
    \* STAGE 7
    ELSE [route |-> "llm", confidence |-> 80, reason |-> "Default"]

(***************************************************************************)
(* IntelligentRouter.route_query: returns the route only                   *)
(***************************************************************************)
I_route_query(query, has_documents, history) ==
    LET query_lower == Lower(query) IN
    IF \E n \in DOMAIN I_simple_phrases :
            StartsWith(query_lower, I_simple_phrases[n])
    THEN "llm"
    ELSE IF has_conversation_context(query, history)
    THEN "llm"
    ELSE IF is_mathematical(query)
    THEN "llm"
    ELSE IF references_documents(query, has_documents)
    THEN "rag"
    ELSE IF needs_realtime_data(query)
    THEN "web"
    ELSE IF AnyIn(I_llm_indicators, query_lower)
    THEN "llm"
    ELSE "llm"

(***************************************************************************)
(* Queries                                                                 *)
(***************************************************************************)
\* every combination of the six stage predicates is realised by a query
\* assembled from one fragment per predicate family
QueryOf(mask) ==
    (IF mask[1] THEN F_greeting ELSE <<>>) \o
    (IF mask[2] THEN F_continuation ELSE <<>>) \o
    (IF mask[3] THEN F_math ELSE <<>>) \o
    (IF mask[4] THEN F_doc ELSE <<>>) \o
    (IF mask[5] THEN F_temporal ELSE <<>>) \o
    (IF mask[6] THEN F_volatile ELSE <<>>) \o
    (IF mask[7] THEN F_general ELSE <<>>)

ExampleQueries ==
    { Q_hello, Q_according, Q_stock, Q_about_it, Q_current,
      Q_summarize_also, Q_percent, Q_know, Q_sup_news, Q_election,
      Q_news_today, Q_latest_ai, Q_weather, Q_tesla }

\* the queries given to the routers when they are called directly (a
\* prompt is never the empty string)
Queries ==
    ({ QueryOf(mask) : mask \in [1..7 -> BOOLEAN] } \ { <<>> })
        \cup ExampleQueries

\* the queries typed into the chat box of a session: a document question,
\* a real-time question and a follow-up that names a document
SessionQueries == { Q_according, Q_stock, Q_summarize_also }

(***************************************************************************)
(* Answer texts.  An answer is the concatenation of pieces: a literal of   *)
(* the program, str(e) of an exception raised by a collaborator, the       *)
(* content of a language-model response, or a numbered source line.        *)
(***************************************************************************)
Lit(s)       == [kind |-> "lit", text |-> s, about |-> <<>>, n |-> 0]
Exc(who)     == [kind |-> "exc", text |-> who, about |-> <<>>, n |-> 0]
Resp(prompt) == [kind |-> "llm", text |-> prompt.template,
                 about |-> prompt.query, n |-> 0]
Src(i, s)    == [kind |-> "src", text |-> s, about |-> <<>>, n |-> i]

HumanMessage(content) == [role |-> "human", content |-> content]
AIMessage(content)    == [role |-> "ai", content |-> content]

None == [kind |-> "None", chunks |-> <<>>]
FAISS(chunks) == [kind |-> "FAISS", chunks |-> chunks]

NoPrompt == [template |-> "", query |-> <<>>, history |-> <<>>, chunks |-> <<>>]

\* one entry of the trace of calls made while a query is processed
Call(fn, arg, prompt, ok, ret) ==
    [fn |-> fn, arg |-> arg, prompt |-> prompt, ok |-> ok, ret |-> ret]

\* messages[:n] in the place of messages[-n:]
LastN_head(s, n) == IF Len(s) <= n THEN s ELSE SubSeq(s, 1, n)

\* messages[-n:]
LastN(s, n) == IF Len(s) <= n THEN s ELSE SubSeq(s, Len(s) - n + 1, Len(s))

ContextWindow == 12     \* messages[-12:]
RetrieverK    == 4      \* search_kwargs={"k": 4}
MaxSources    == 3      \* docs[:3]

(***************************************************************************)
(* LLM pipeline                                                            *)
(***************************************************************************)
\* llm_prompt built after the current query was added to the history
llm_prompt_with_current(query) ==
    LET seen == Append(chat_history, HumanMessage(query))
        context_history ==
            [ i \in 1..Len(LastN(seen, ContextWindow)) |->
                LET msg == LastN(seen, ContextWindow)[i] IN
                [who |-> IF msg.role = "human" THEN "User" ELSE "Assistant",
                 content |-> msg.content] ]
    IN  IF context_history # <<>>
        THEN [template |-> "history", query |-> query,
              history |-> context_history, chunks |-> <<>>]
        ELSE [template |-> "first", query |-> query,
              history |-> <<>>, chunks |-> <<>>]

\* the prompt both variants build from st.session_state.chat_history
llm_prompt(query) ==
    LET context_history ==
            [ i \in 1..Len(LastN(chat_history, ContextWindow)) |->
                LET msg == LastN(chat_history, ContextWindow)[i] IN
                [who |-> IF msg.role = "human" THEN "User" ELSE "Assistant",
                 content |-> msg.content] ]
    IN  IF context_history # <<>>
        THEN [template |-> "history", query |-> query,
              history |-> context_history, chunks |-> <<>>]
        ELSE [template |-> "first", query |-> query,
              history |-> <<>>, chunks |-> <<>>]

\* EnhancedChatbotManager.answer_with_llm invoking the model once more
\* when the invocation raised
E_answer_with_llm_retry(query, history, llm_fails) ==
    LET prompt == llm_prompt(query) IN
    IF llm_fails
    THEN [answer |-> << Lit("I apologize, but I encountered an error: "),
                        Exc("llm") >>,
          raised |-> FALSE, exc |-> "",
          calls |-> << Call("llm.invoke", query, prompt, FALSE, <<>>),
                       Call("llm.invoke", query, prompt, FALSE, <<>>) >>]
    ELSE [answer |-> << Resp(prompt) >>, raised |-> FALSE, exc |-> "",
          calls |-> << Call("llm.invoke", query, prompt, TRUE,
                            << Resp(prompt) >>) >>]

\* EnhancedChatbotManager.answer_with_llm without its try/except
E_answer_with_llm_uncaught(query, history, llm_fails) ==
    LET prompt == llm_prompt(query) IN
    IF llm_fails
    THEN [answer |-> <<>>, raised |-> TRUE, exc |-> "llm",
          calls |-> << Call("llm.invoke", query, prompt, FALSE, <<>>) >>]
    ELSE [answer |-> << Resp(prompt) >>, raised |-> FALSE, exc |-> "",
          calls |-> << Call("llm.invoke", query, prompt, TRUE,
                            << Resp(prompt) >>) >>]

\* EnhancedChatbotManager.answer_with_llm
E_answer_with_llm(query, history, llm_fails) ==
    LET prompt == llm_prompt(query) IN
    IF llm_fails
    THEN [answer |-> << Lit("I apologize, but I encountered an error: "),
                        Exc("llm") >>,
          raised |-> FALSE, exc |-> "",
          calls |-> << Call("llm.invoke", query, prompt, FALSE, <<>>) >>]
    ELSE [answer |-> << Resp(prompt) >>, raised |-> FALSE, exc |-> "",
          calls |-> << Call("llm.invoke", query, prompt, TRUE,
                            << Resp(prompt) >>) >>]

\* ChatbotManager.answer_with_llm: no try/except around llm.invoke
I_answer_with_llm(query, history, llm_fails) ==
    LET prompt == llm_prompt(query) IN
    IF llm_fails
    THEN [answer |-> <<>>, raised |-> TRUE, exc |-> "llm",
          calls |-> << Call("llm.invoke", query, prompt, FALSE, <<>>) >>]
    ELSE [answer |-> << Resp(prompt) >>, raised |-> FALSE, exc |-> "",
          calls |-> << Call("llm.invoke", query, prompt, TRUE,
                            << Resp(prompt) >>) >>]

(***************************************************************************)
(* RAG pipeline                                                            *)
(***************************************************************************)
\* the source lines appended to a RAG answer:
\*   for i, doc in enumerate(docs[:3], 1): if source not in seen_sources ...
RECURSIVE source_lines(_, _, _)
source_lines(docs, i, seen_sources) ==
    IF i > Len(docs) \/ i > MaxSources
    THEN <<>>
    ELSE IF docs[i] \notin seen_sources
         THEN << Src(i, docs[i]) >>
                 \o source_lines(docs, i + 1, seen_sources \cup {docs[i]})
         ELSE source_lines(docs, i + 1, seen_sources)

rag_prompt(query, docs) ==
    [template |-> "rag", query |-> query, history |-> <<>>, chunks |-> docs]

\* the fixed answer of answer_with_rag when there is no index
NoDocumentsMessage(variant) ==
    << Lit(IF variant = "enhanced"
           THEN "No documents available. Please upload documents first."
           ELSE "No documents have been uploaded yet. Please upload documents to use RAG.") >>

\* answer_with_rag falling back to the language model alone when the
\* retriever raises
answer_with_rag_llm_fallback(variant, query, vs, history, retriever_fails, docs, llm_fails) ==
    IF vs = None
    THEN [answer |-> NoDocumentsMessage(variant),
          raised |-> FALSE, exc |-> "", calls |-> <<>>]
    ELSE IF retriever_fails
    THEN [answer |-> << Resp(llm_prompt(query)) >>,
          raised |-> FALSE, exc |-> "",
          calls |-> << Call("retriever.invoke", query, NoPrompt, FALSE, <<>>),
                       Call("answer_with_llm", query, NoPrompt, TRUE,
                            << Resp(llm_prompt(query)) >>),
                       Call("llm.invoke", query, llm_prompt(query), TRUE,
                            << Resp(llm_prompt(query)) >>) >>]
    ELSE IF llm_fails
    THEN [answer |-> << Lit("Error accessing documents: "), Exc("llm") >>,
          raised |-> FALSE, exc |-> "",
          calls |-> << Call("retriever.invoke", query, NoPrompt, TRUE, <<>>),
                       Call("llm.invoke", query, rag_prompt(query, docs),
                            FALSE, <<>>) >>]
    ELSE [answer |-> << Resp(rag_prompt(query, docs)) >>
                      \o (IF docs # <<>>
                          THEN << Lit("Sources:") >>
                                  \o source_lines(docs, 1, {})
                          ELSE <<>>),
          raised |-> FALSE, exc |-> "",
          calls |-> << Call("retriever.invoke", query, NoPrompt, TRUE, <<>>),
                       Call("llm.invoke", query, rag_prompt(query, docs),
                            TRUE, << Resp(rag_prompt(query, docs)) >>) >>]

\* answer_with_rag without the check of the index: as_retriever is called
\* on None and the AttributeError is caught by the except of the method
answer_with_rag_no_null_check(variant, query, vs, history, retriever_fails, docs, llm_fails) ==
    IF vs = None
    THEN [answer |-> << Lit("Error accessing documents: "), Exc("vectorstore") >>,
          raised |-> FALSE, exc |-> "", calls |-> <<>>]
    ELSE IF retriever_fails
    THEN [answer |-> << Lit("Error accessing documents: "), Exc("retriever") >>,
          raised |-> FALSE, exc |-> "",
          calls |-> << Call("retriever.invoke", query, NoPrompt, FALSE, <<>>) >>]
    ELSE IF llm_fails
    THEN [answer |-> << Lit("Error accessing documents: "), Exc("llm") >>,
          raised |-> FALSE, exc |-> "",
          calls |-> << Call("retriever.invoke", query, NoPrompt, TRUE, <<>>),
                       Call("llm.invoke", query, rag_prompt(query, docs),
                            FALSE, <<>>) >>]
    ELSE [answer |-> << Resp(rag_prompt(query, docs)) >>
                      \o (IF docs # <<>>
                          THEN << Lit("Sources:") >>
                                  \o source_lines(docs, 1, {})
                          ELSE <<>>),
          raised |-> FALSE, exc |-> "",
          calls |-> << Call("retriever.invoke", query, NoPrompt, TRUE, <<>>),
                       Call("llm.invoke", query, rag_prompt(query, docs),
                            TRUE, << Resp(rag_prompt(query, docs)) >>) >>]

\* answer_with_rag of both variants; they differ in the literals only
answer_with_rag(variant, query, vs, history, retriever_fails, docs, llm_fails) ==
    IF vs = None
    THEN [answer |-> NoDocumentsMessage(variant),
          raised |-> FALSE, exc |-> "", calls |-> <<>>]
    ELSE IF retriever_fails
    THEN [answer |-> << Lit("Error accessing documents: "), Exc("retriever") >>,
          raised |-> FALSE, exc |-> "",
          calls |-> << Call("retriever.invoke", query, NoPrompt, FALSE, <<>>) >>]
    ELSE IF llm_fails
    THEN [answer |-> << Lit("Error accessing documents: "), Exc("llm") >>,
          raised |-> FALSE, exc |-> "",
          calls |-> << Call("retriever.invoke", query, NoPrompt, TRUE, <<>>),
                       Call("llm.invoke", query, rag_prompt(query, docs),
                            FALSE, <<>>) >>]
    ELSE [answer |-> << Resp(rag_prompt(query, docs)) >>
                      \o (IF docs # <<>>
                          THEN << Lit("Sources:") >>
                                  \o source_lines(docs, 1, {})
                          ELSE <<>>),
          raised |-> FALSE, exc |-> "",
          calls |-> << Call("retriever.invoke", query, NoPrompt, TRUE, <<>>),
                       Call("llm.invoke", query, rag_prompt(query, docs),
                            TRUE, << Resp(rag_prompt(query, docs)) >>) >>]

(***************************************************************************)
(* Web pipeline                                                            *)
(***************************************************************************)
synthesis_prompt(query) ==
    [template |-> "synthesis", query |-> query, history |-> <<>>,
     chunks |-> <<>>]

\* E_web_fallback without the note appended to the query
E_web_fallback_no_note(query, llm_fails) ==
    LET r == E_answer_with_llm(query, chat_history, llm_fails)
    IN  [r EXCEPT !.calls =
            << Call("answer_with_llm", query, NoPrompt,
                    ~r.raised, r.answer) >> \o r.calls]

\* the except branch of EnhancedChatbotManager.answer_with_web
E_web_fallback(query, llm_fails) ==
    LET r == E_answer_with_llm(query \o WebNote, chat_history, llm_fails)
    IN  [r EXCEPT !.calls =
            << Call("answer_with_llm", query \o WebNote, NoPrompt,
                    ~r.raised, r.answer) >> \o r.calls]

\* E_answer_with_web without its try/except
E_answer_with_web_uncaught(query, search_fails, llm_fails) ==
    IF search_fails
    THEN [answer |-> <<>>, raised |-> TRUE, exc |-> "search",
          calls |-> << Call("search_tool.run", query, NoPrompt, FALSE, <<>>) >>]
    ELSE IF llm_fails[1]
    THEN [answer |-> <<>>, raised |-> TRUE, exc |-> "llm",
          calls |-> << Call("search_tool.run", query, NoPrompt, TRUE, <<>>),
                       Call("llm.invoke", query, synthesis_prompt(query),
                            FALSE, <<>>) >>]
    ELSE [answer |-> << Resp(synthesis_prompt(query)),
                        Lit("Information from web search") >>,
          raised |-> FALSE, exc |-> "",
          calls |-> << Call("search_tool.run", query, NoPrompt, TRUE, <<>>),
                       Call("llm.invoke", query, synthesis_prompt(query),
                            TRUE, << Resp(synthesis_prompt(query)) >>) >>]

\* EnhancedChatbotManager.answer_with_web
\* llm_fails[n] tells whether the n-th language-model invocation raises
E_answer_with_web(query, search_fails, llm_fails) ==
    IF search_fails
    THEN LET f == E_web_fallback(query, llm_fails[1])
         IN  [f EXCEPT !.calls =
                << Call("search_tool.run", query, NoPrompt, FALSE, <<>>) >>
                    \o f.calls]
    ELSE IF llm_fails[1]
    THEN LET f == E_web_fallback(query, llm_fails[2])
         IN  [f EXCEPT !.calls =
                << Call("search_tool.run", query, NoPrompt, TRUE, <<>>),
                   Call("llm.invoke", query, synthesis_prompt(query),
                        FALSE, <<>>) >> \o f.calls]
    ELSE [answer |-> << Resp(synthesis_prompt(query)),
                        Lit("Information from web search") >>,
          raised |-> FALSE, exc |-> "",
          calls |-> << Call("search_tool.run", query, NoPrompt, TRUE, <<>>),
                       Call("llm.invoke", query, synthesis_prompt(query),
                            TRUE, << Resp(synthesis_prompt(query)) >>) >>]

\* the except branch of ChatbotManager.answer_with_web:
\*   "Web search encountered an error: {e}\nLet me try ...\n\n" + answer_with_llm(...)
I_web_fallback(query, exc, llm_fails) ==
    LET r == I_answer_with_llm(query, chat_history, llm_fails)
    IN  [answer |-> IF r.raised THEN <<>>
                    ELSE << Lit("Web search encountered an error: "),
                            Exc(exc),
                            Lit("Let me try to answer from my knowledge instead.") >>
                          \o r.answer,
         raised |-> r.raised, exc |-> r.exc,
         calls |-> << Call("answer_with_llm", query, NoPrompt,
                           ~r.raised, r.answer) >> \o r.calls]

\* ChatbotManager.answer_with_web
I_answer_with_web(query, search_fails, llm_fails) ==
    IF search_fails
    THEN LET f == I_web_fallback(query, "search", llm_fails[1])
         IN  [f EXCEPT !.calls =
                << Call("search_tool.run", query, NoPrompt, FALSE, <<>>) >>
                    \o f.calls]
    ELSE IF llm_fails[1]
    THEN LET f == I_web_fallback(query, "llm", llm_fails[2])
         IN  [f EXCEPT !.calls =
                << Call("search_tool.run", query, NoPrompt, TRUE, <<>>),
                   Call("llm.invoke", query, synthesis_prompt(query),
                        FALSE, <<>>) >> \o f.calls]
    ELSE [answer |-> << Resp(synthesis_prompt(query)),
                        Lit("Source: Web Search") >>,
          raised |-> FALSE, exc |-> "",
          calls |-> << Call("search_tool.run", query, NoPrompt, TRUE, <<>>),
                       Call("llm.invoke", query, synthesis_prompt(query),
                            TRUE, << Resp(synthesis_prompt(query)) >>) >>]

(***************************************************************************)
(* Document ingestion                                                      *)
(***************************************************************************)
Ext_pdf  == <<"p","d","f">>
Ext_PDF  == <<"P","D","F">>
Ext_txt  == <<"t","x","t">>
Ext_docx == <<"d","o","c","x">>
Ext_exe  == <<"e","x","e">>

\* an uploaded file: its name, the part of the name after the last dot,
\* whether writing its bytes to the temporary file succeeds, what the
\* loader does ("text": Documents, "empty": no Document, "fail": raises)
\* and into how many chunks its text is split
File(name, ext, write, load, nchunks) ==
    [name |-> name, ext |-> ext, write |-> write, load |-> load,
     nchunks |-> nchunks]

Files ==
    { File("a.pdf",  Ext_pdf,  "ok",   "text",  3),
      File("b.txt",  Ext_txt,  "ok",   "text",  1),
      File("C.PDF",  Ext_PDF,  "ok",   "text",  1),
      File("d.docx", Ext_docx, "ok",   "fail",  0),
      File("e.txt",  Ext_txt,  "fail", "text",  1),
      File("f.pdf",  Ext_pdf,  "ok",   "empty", 0),
      File("g.exe",  Ext_exe,  "ok",   "text",  1) }

MaxFiles == 2

\* the non-empty batches of at most n distinct files out of a set of files
BatchesOf(files, n) ==
    { b \in UNION { [1..m -> files] : m \in 1..n } :
        \A i, j \in DOMAIN b : i # j => b[i] # b[j] }

Batches == BatchesOf(Files, MaxFiles)

\* the uploads of a chat session: a file with text and a file without
SessionFiles == { f \in Files : f.name \in {"a.pdf", "f.pdf"} }

\* in a chat session the uploader hands over one of these files at a time
SessionBatches == { << f >> : f \in SessionFiles }

\* the chunks of one loaded file, each tagged with its source
ChunksOf(f) == [ c \in 1..f.nchunks |-> f.name ]

\* the loop body of EnhancedChatbotManager.process_documents for files[i];
\* acc.tmp_path is the index of the file whose temporary path the local
\* variable tmp_path holds (0: not bound yet), acc.leaked the temporary
\* files that still exist
RECURSIVE E_load_files(_, _, _)
E_load_files(files, i, acc) ==
    IF i > Len(files) THEN acc
    ELSE
      LET f == files[i]
          file_ext == Lower(f.ext)
      IN
      IF f.write = "fail"
      THEN \* write raises inside the with-block: tmp_path is not assigned;
           \* finally unlinks the stale path of the previous file, if any
           E_load_files(files, i + 1,
              [acc EXCEPT !.errors = Append(@, f.name),
                          !.leaked = @ \cup {i}])
      ELSE IF file_ext \notin {Ext_pdf, Ext_txt, Ext_docx}
      THEN E_load_files(files, i + 1,
              [acc EXCEPT !.errors = Append(@, f.name), !.tmp_path = i])
      ELSE IF f.load = "fail"
      THEN E_load_files(files, i + 1,
              [acc EXCEPT !.errors = Append(@, f.name), !.tmp_path = i])
      ELSE IF f.load = "empty"
      THEN E_load_files(files, i + 1, [acc EXCEPT !.tmp_path = i])
      ELSE E_load_files(files, i + 1,
              [acc EXCEPT !.documents = @ \o ChunksOf(f), !.tmp_path = i])

\* EnhancedChatbotManager.process_documents
E_process_documents(uploaded_files) ==
    LET acc == E_load_files(uploaded_files, 1,
                  [documents |-> <<>>, errors |-> <<>>, leaked |-> {},
                   tmp_path |-> 0, raised |-> FALSE])
    IN  [vectorstore |-> IF acc.documents = <<>> THEN None
                         ELSE FAISS(acc.documents),
         raised |-> FALSE, errors |-> acc.errors, leaked |-> acc.leaked]

\* the loop of ChatbotManager.process_documents; the write is outside the
\* try, and the try has a finally but no except
RECURSIVE I_load_files(_, _, _)
I_load_files(files, i, acc) ==
    IF i > Len(files) THEN acc
    ELSE
      LET f == files[i] IN
      IF f.write = "fail"
      THEN [acc EXCEPT !.raised = TRUE, !.leaked = @ \cup {i}]
      ELSE IF f.ext \notin {Ext_pdf, Ext_txt, Ext_docx}
      THEN I_load_files(files, i + 1,
              [acc EXCEPT !.errors = Append(@, f.name), !.tmp_path = i])
      ELSE IF f.load = "fail"
      THEN [acc EXCEPT !.raised = TRUE, !.tmp_path = i]
      ELSE IF f.load = "empty"
      THEN I_load_files(files, i + 1, [acc EXCEPT !.tmp_path = i])
      ELSE I_load_files(files, i + 1,
              [acc EXCEPT !.documents = @ \o ChunksOf(f), !.tmp_path = i])

\* ChatbotManager.process_documents
I_process_documents(uploaded_files) ==
    LET acc == I_load_files(uploaded_files, 1,
                  [documents |-> <<>>, errors |-> <<>>, leaked |-> {},
                   tmp_path |-> 0, raised |-> FALSE])
    IN  [vectorstore |-> IF acc.raised \/ acc.documents = <<>> THEN None
                         ELSE FAISS(acc.documents),
         raised |-> acc.raised, errors |-> acc.errors, leaked |-> acc.leaked]

\* what the retriever can return for an index: the RetrieverK best chunks
\* under some similarity ranking of the chunks
Retrievals(vs) ==
    { LET ranked == [ i \in 1..Len(vs.chunks) |-> vs.chunks[p[i]] ]
      IN  SubSeq(ranked, 1, IF Len(ranked) < RetrieverK THEN Len(ranked)
                            ELSE RetrieverK)
      : p \in Permutations(1..Len(vs.chunks)) }

(***************************************************************************)
(* Session orchestrator                                                    *)
(***************************************************************************)
\* what the collaborators do while one query is processed: whether the
\* search tool and the retriever raise, whether the n-th language-model
\* invocation raises, and what the retriever returns
Fails(vs) ==
    [ search : BOOLEAN, retriever : BOOLEAN,
      llm : [1..2 -> BOOLEAN], docs : Retrievals(vs) ]

\* the pipeline method process_query dispatches to for a route
PipelineOf(route) ==
    IF route = "rag" THEN "answer_with_rag"
    ELSE IF route = "web" THEN "answer_with_web"
    ELSE "answer_with_llm"

\* E_process_query with has_documents taken from the processed-file list
E_process_query_files_flag(query) ==
    LET has_documents == processed_files # <<>>
        route_info == E_route_query(query, has_documents, chat_history)
        route == route_info.route
    IN  [ fails \in Fails(vectorstore) |->
          LET p == IF route = "rag"
                   THEN answer_with_rag("enhanced", query, vectorstore,
                                        chat_history, fails.retriever,
                                        fails.docs, fails.llm[1])
                   ELSE IF route = "web"
                   THEN E_answer_with_web(query, fails.search, fails.llm)
                   ELSE E_answer_with_llm(query, chat_history, fails.llm[1])
          IN  IF p.raised
              THEN \* except Exception as e
                   [result |-> [answer |-> << Lit("An error occurred: "),
                                              Exc(p.exc) >>,
                                route |-> "error", confidence |-> 0,
                                reason |-> "Error"],
                    raised |-> FALSE,
                    chat_history |-> chat_history,
                    route_stats |-> route_stats,
                    total_queries |-> total_queries,
                    has_documents |-> has_documents,
                    pipeline |-> PipelineOf(route), calls |-> p.calls]
              ELSE [result |-> [answer |-> p.answer, route |-> route,
                                confidence |-> route_info.confidence,
                                reason |-> route_info.reason],
                    raised |-> FALSE,
                    chat_history |-> chat_history
                        \o << HumanMessage(query), AIMessage(p.answer) >>,
                    route_stats |-> [route_stats EXCEPT ![route] = @ + 1],
                    total_queries |-> total_queries + 1,
                    has_documents |-> has_documents,
                    pipeline |-> PipelineOf(route), calls |-> p.calls] ]

\* process_query reporting route llm when the web pipeline fell back to the
\* LLM pipeline
E_process_query_relabel(query) ==
    LET has_documents == vectorstore # None
        route_info == E_route_query(query, has_documents, chat_history)
        route == route_info.route
    IN  [ fails \in Fails(vectorstore) |->
          LET p == IF route = "rag"
                   THEN answer_with_rag("enhanced", query, vectorstore,
                                        chat_history, fails.retriever,
                                        fails.docs, fails.llm[1])
                   ELSE IF route = "web"
                   THEN E_answer_with_web(query, fails.search, fails.llm)
                   ELSE E_answer_with_llm(query, chat_history, fails.llm[1])
          IN  IF p.raised
              THEN \* except Exception as e
                   [result |-> [answer |-> << Lit("An error occurred: "),
                                              Exc(p.exc) >>,
                                route |-> "error", confidence |-> 0,
                                reason |-> "Error"],
                    raised |-> FALSE,
                    chat_history |-> chat_history,
                    route_stats |-> route_stats,
                    total_queries |-> total_queries,
                    has_documents |-> has_documents,
                    pipeline |-> PipelineOf(route), calls |-> p.calls]
              ELSE [result |-> [answer |-> p.answer,
                                route |-> IF \E c \in DOMAIN p.calls :
                                                p.calls[c].fn = "answer_with_llm"
                                          THEN "llm" ELSE route,
                                confidence |-> route_info.confidence,
                                reason |-> route_info.reason],
                    raised |-> FALSE,
                    chat_history |-> chat_history
                        \o << HumanMessage(query), AIMessage(p.answer) >>,
                    route_stats |-> [route_stats EXCEPT ![route] = @ + 1],
                    total_queries |-> total_queries + 1,
                    has_documents |-> has_documents,
                    pipeline |-> PipelineOf(route), calls |-> p.calls] ]

\* EnhancedChatbotManager.process_query, as a function of what the
\* collaborators do during the call; each value carries the returned dict,
\* whether an exception escaped, and the session state the call leaves
E_process_query(query) ==
    LET has_documents == vectorstore # None
        route_info == E_route_query(query, has_documents, chat_history)
        route == route_info.route
    IN  [ fails \in Fails(vectorstore) |->
          LET p == IF route = "rag"
                   THEN answer_with_rag("enhanced", query, vectorstore,
                                        chat_history, fails.retriever,
                                        fails.docs, fails.llm[1])
                   ELSE IF route = "web"
                   THEN E_answer_with_web(query, fails.search, fails.llm)
                   ELSE E_answer_with_llm(query, chat_history, fails.llm[1])
          IN  IF p.raised
              THEN \* except Exception as e
                   [result |-> [answer |-> << Lit("An error occurred: "),
                                              Exc(p.exc) >>,
                                route |-> "error", confidence |-> 0,
                                reason |-> "Error"],
                    raised |-> FALSE,
                    chat_history |-> chat_history,
                    route_stats |-> route_stats,
                    total_queries |-> total_queries,
                    has_documents |-> has_documents,
                    pipeline |-> PipelineOf(route), calls |-> p.calls]
              ELSE [result |-> [answer |-> p.answer, route |-> route,
                                confidence |-> route_info.confidence,
                                reason |-> route_info.reason],
                    raised |-> FALSE,
                    chat_history |-> chat_history
                        \o << HumanMessage(query), AIMessage(p.answer) >>,
                    route_stats |-> [route_stats EXCEPT ![route] = @ + 1],
                    total_queries |-> total_queries + 1,
                    has_documents |-> has_documents,
                    pipeline |-> PipelineOf(route), calls |-> p.calls] ]

\* I_process_query with the user turn recorded before the pipeline runs
I_process_query_user_first(query) ==
    LET has_documents == vectorstore # None
        route == I_route_query(query, has_documents, chat_history)
    IN  [ fails \in Fails(vectorstore) |->
          LET p == IF route = "rag"
                   THEN answer_with_rag("base", query, vectorstore,
                                        chat_history, fails.retriever,
                                        fails.docs, fails.llm[1])
                   ELSE IF route = "web"
                   THEN I_answer_with_web(query, fails.search, fails.llm)
                   ELSE I_answer_with_llm(query, chat_history, fails.llm[1])
          IN  IF p.raised
              THEN [result |-> [answer |-> <<>>, route |-> route,
                                confidence |-> 0, reason |-> ""],
                    raised |-> TRUE,
                    chat_history |-> Append(chat_history, HumanMessage(query)),
                    route_stats |-> route_stats,
                    total_queries |-> total_queries,
                    has_documents |-> has_documents,
                    pipeline |-> PipelineOf(route), calls |-> p.calls]
              ELSE [result |-> [answer |-> p.answer, route |-> route,
                                confidence |-> 0, reason |-> ""],
                    raised |-> FALSE,
                    chat_history |-> chat_history
                        \o << HumanMessage(query), AIMessage(p.answer) >>,
                    route_stats |-> route_stats,
                    total_queries |-> total_queries,
                    has_documents |-> has_documents,
                    pipeline |-> PipelineOf(route), calls |-> p.calls] ]

\* ChatbotManager.process_query; an exception of a pipeline propagates
I_process_query(query) ==
    LET has_documents == vectorstore # None
        route == I_route_query(query, has_documents, chat_history)
    IN  [ fails \in Fails(vectorstore) |->
          LET p == IF route = "rag"
                   THEN answer_with_rag("base", query, vectorstore,
                                        chat_history, fails.retriever,
                                        fails.docs, fails.llm[1])
                   ELSE IF route = "web"
                   THEN I_answer_with_web(query, fails.search, fails.llm)
                   ELSE I_answer_with_llm(query, chat_history, fails.llm[1])
          IN  IF p.raised
              THEN [result |-> [answer |-> <<>>, route |-> route,
                                confidence |-> 0, reason |-> ""],
                    raised |-> TRUE,
                    chat_history |-> chat_history,
                    route_stats |-> route_stats,
                    total_queries |-> total_queries,
                    has_documents |-> has_documents,
                    pipeline |-> PipelineOf(route), calls |-> p.calls]
              ELSE [result |-> [answer |-> p.answer, route |-> route,
                                confidence |-> 0, reason |-> ""],
                    raised |-> FALSE,
                    chat_history |-> chat_history
                        \o << HumanMessage(query), AIMessage(p.answer) >>,
                    route_stats |-> route_stats,
                    total_queries |-> total_queries,
                    has_documents |-> has_documents,
                    pipeline |-> PipelineOf(route), calls |-> p.calls] ]

(***************************************************************************)
(* The session: state after construction and the handlers of main()        *)
(***************************************************************************)
MaxQueries == 2     \* chat inputs accepted between two clears
MaxTotal   == 2     \* cap of the total_queries counter

NoResult == [answer |-> <<>>, route |-> "", confidence |-> 0, reason |-> ""]

NoObs ==
    [op |-> "init", query |-> <<>>, result |-> NoResult,
     raised |-> FALSE, has_documents |-> FALSE, pipeline |-> "",
     calls |-> <<>>, history_before |-> <<>>, batch |-> <<>>,
     errors |-> <<>>, leaked |-> {}, index_before |-> None]

NoProbe ==
    [op |-> "none", query |-> <<>>, has_documents |-> FALSE,
     chat_history |-> <<>>,
     enhanced |-> [route |-> "", confidence |-> 0, reason |-> ""],
     base |-> ""]

SessionInit ==
    /\ messages = <<>>
    /\ chat_history = <<>>
    /\ vectorstore = None
    /\ processed_files = <<>>
    /\ route_stats = [llm |-> 0, rag |-> 0, web |-> 0]
    /\ total_queries = 0
    /\ last = NoObs
    /\ rq = NoProbe

Init ==
    /\ app \in {"base", "enhanced"}
    /\ SessionInit

\* ChatInput recording the user turn in the conversation too when
\* process_query raised
ChatInput_log_user_on_raise ==
    /\ Len(messages) < 2 * MaxQueries
    /\ total_queries < MaxTotal
    /\ \E prompt \in SessionQueries :
       \E outcomes \in { IF app = "enhanced" THEN E_process_query(prompt)
                         ELSE I_process_query(prompt) } :
       \E r \in { outcomes[fails] : fails \in DOMAIN outcomes } :
          /\ messages' =
                IF r.raised
                THEN Append(messages,
                        [role |-> "user", content |-> prompt, route |-> ""])
                ELSE messages \o
                     << [role |-> "user", content |-> prompt, route |-> ""],
                        [role |-> "assistant", content |-> r.result.answer,
                         route |-> r.result.route] >>
          /\ chat_history' =
                IF r.raised
                THEN Append(chat_history, HumanMessage(prompt))
                ELSE r.chat_history
          /\ route_stats' = r.route_stats
          /\ total_queries' = r.total_queries
          /\ last' = [NoObs EXCEPT !.op = "process_query",
                        !.query = prompt,
                        !.result = r.result, !.raised = r.raised,
                        !.has_documents = r.has_documents,
                        !.pipeline = r.pipeline, !.calls = r.calls,
                        !.history_before = chat_history]
    /\ UNCHANGED << app, vectorstore, processed_files, rq >>

\* if prompt := st.chat_input(...): the whole handler
ChatInput ==
    /\ Len(messages) < 2 * MaxQueries
    /\ total_queries < MaxTotal
    /\ \E prompt \in SessionQueries :
       \E outcomes \in { IF app = "enhanced" THEN E_process_query(prompt)
                         ELSE I_process_query(prompt) } :
       \E r \in { outcomes[fails] : fails \in DOMAIN outcomes } :
          /\ messages' =
                IF r.raised
                THEN Append(messages,
                        [role |-> "user", content |-> prompt, route |-> ""])
                ELSE messages \o
                     << [role |-> "user", content |-> prompt, route |-> ""],
                        [role |-> "assistant", content |-> r.result.answer,
                         route |-> r.result.route] >>
          /\ chat_history' = r.chat_history
          /\ route_stats' = r.route_stats
          /\ total_queries' = r.total_queries
          /\ last' = [NoObs EXCEPT !.op = "process_query",
                        !.query = prompt,
                        !.result = r.result, !.raised = r.raised,
                        !.has_documents = r.has_documents,
                        !.pipeline = r.pipeline, !.calls = r.calls,
                        !.history_before = chat_history]
    /\ UNCHANGED << app, vectorstore, processed_files, rq >>

\* ProcessDocuments starting a new conversation for the new documents
ProcessDocuments_new_chat(batches) ==
    /\ \E uploaded_files \in batches :
       \E r \in { IF app = "enhanced" THEN E_process_documents(uploaded_files)
                  ELSE I_process_documents(uploaded_files) } :
          /\ vectorstore' = IF r.raised THEN vectorstore ELSE r.vectorstore
          /\ processed_files' =
                IF r.raised THEN processed_files
                ELSE [ i \in 1..Len(uploaded_files) |-> uploaded_files[i].name ]
          /\ messages' = IF r.raised THEN messages ELSE <<>>
          /\ chat_history' = IF r.raised THEN chat_history ELSE <<>>
          /\ last' = [NoObs EXCEPT !.op = "process_documents",
                        !.batch = uploaded_files, !.raised = r.raised,
                        !.errors = r.errors, !.leaked = r.leaked,
                        !.index_before = vectorstore]
    /\ UNCHANGED << app, route_stats, total_queries, rq >>

\* ProcessDocuments storing the result only when an index was built
ProcessDocuments_keep_old(batches) ==
    /\ \E uploaded_files \in batches :
       \E r \in { IF app = "enhanced" THEN E_process_documents(uploaded_files)
                  ELSE I_process_documents(uploaded_files) } :
          /\ vectorstore' = IF r.raised \/ r.vectorstore = None
                            THEN vectorstore ELSE r.vectorstore
          /\ processed_files' =
                IF r.raised THEN processed_files
                ELSE [ i \in 1..Len(uploaded_files) |-> uploaded_files[i].name ]
          /\ last' = [NoObs EXCEPT !.op = "process_documents",
                        !.batch = uploaded_files, !.raised = r.raised,
                        !.errors = r.errors, !.leaked = r.leaked,
                        !.index_before = vectorstore]
    /\ UNCHANGED << app, messages, chat_history, route_stats, total_queries, rq >>

\* the "Process Documents" button, for the batches the uploader holds:
\*   vectorstore = chatbot.process_documents(uploaded_files)
\*   st.session_state.vectorstore = vectorstore
\*   st.session_state.processed_files = [f.name for f in uploaded_files]
\* (an exception of process_documents ends the handler before the stores)
ProcessDocuments(batches) ==
    /\ \E uploaded_files \in batches :
       \E r \in { IF app = "enhanced" THEN E_process_documents(uploaded_files)
                  ELSE I_process_documents(uploaded_files) } :
          /\ vectorstore' = IF r.raised THEN vectorstore ELSE r.vectorstore
          /\ processed_files' =
                IF r.raised THEN processed_files
                ELSE [ i \in 1..Len(uploaded_files) |-> uploaded_files[i].name ]
          /\ last' = [NoObs EXCEPT !.op = "process_documents",
                        !.batch = uploaded_files, !.raised = r.raised,
                        !.errors = r.errors, !.leaked = r.leaked,
                        !.index_before = vectorstore]
    /\ UNCHANGED << app, messages, chat_history, route_stats, total_queries, rq >>

\* ClearChat emptying the displayed messages only
ClearChat_messages_only ==
    /\ messages' = <<>>
    /\ last' = [NoObs EXCEPT !.op = "clear"]
    /\ UNCHANGED << app, chat_history, vectorstore, processed_files,
                    route_stats, total_queries, rq >>

\* the "Clear Chat" button:
\*   st.session_state.messages = []
\*   st.session_state.chat_history = ChatMessageHistory()
ClearChat ==
    /\ messages' = <<>>
    /\ chat_history' = <<>>
    /\ last' = [NoObs EXCEPT !.op = "clear"]
    /\ UNCHANGED << app, vectorstore, processed_files, route_stats,
                    total_queries, rq >>

\* ResetStats zeroing the three route counters only
ResetStats_routes_only ==
    /\ app = "enhanced"
    /\ route_stats' = [llm |-> 0, rag |-> 0, web |-> 0]
    /\ last' = [NoObs EXCEPT !.op = "reset_stats"]
    /\ UNCHANGED << app, messages, chat_history, vectorstore,
                    processed_files, total_queries, rq >>

\* the "Reset Stats" button (enhanced variant only):
\*   st.session_state.route_stats = {"llm": 0, "rag": 0, "web": 0}
\*   st.session_state.total_queries = 0
ResetStats ==
    /\ app = "enhanced"
    /\ route_stats' = [llm |-> 0, rag |-> 0, web |-> 0]
    /\ total_queries' = 0
    /\ last' = [NoObs EXCEPT !.op = "reset_stats"]
    /\ UNCHANGED << app, messages, chat_history, vectorstore,
                    processed_files, rq >>

Next ==
    \/ ChatInput
    \/ ProcessDocuments(SessionBatches)
    \/ ClearChat
    \/ ResetStats

Spec == Init /\ [][Next]_vars

(***************************************************************************)
(* Document processing alone: every batch of at most MaxFiles files,       *)
(* processed one batch after the other                                     *)
(***************************************************************************)
DocNext == ProcessDocuments(Batches)

DocSpec == Init /\ [][DocNext]_vars

(***************************************************************************)
(* Direct calls of answer_with_llm in a session whose conversation holds   *)
(* up to MaxExchanges earlier exchanges, more than the context window      *)
(***************************************************************************)
MaxExchanges == 7

\* the user turns of the earlier exchanges
HistoryQueries == { Q_hello, Q_know }

\* the conversation after the queries qs were answered by the LLM pipeline:
\* add_user_message(query), add_ai_message(answer) for each of them
HistoryOf(qs) ==
    [ k \in 1..(2 * Len(qs)) |->
        IF k % 2 = 1
        THEN HumanMessage(qs[(k + 1) \div 2])
        ELSE AIMessage(<< Resp([NoPrompt EXCEPT !.template = "first",
                                                !.query = qs[k \div 2]]) >>) ]

\* the displayed list that goes with such a conversation
DisplayOf(qs) ==
    [ k \in 1..(2 * Len(qs)) |->
        IF k % 2 = 1
        THEN [role |-> "user", content |-> qs[(k + 1) \div 2], route |-> ""]
        ELSE [role |-> "assistant",
              content |-> HistoryOf(qs)[k].content, route |-> "llm"] ]

LlmInit ==
    /\ app \in {"base", "enhanced"}
    /\ \E n \in 0..MaxExchanges : \E qs \in [1..n -> HistoryQueries] :
          /\ chat_history = HistoryOf(qs)
          /\ messages = DisplayOf(qs)
          /\ route_stats = [llm |-> IF app = "enhanced" THEN n ELSE 0,
                            rag |-> 0, web |-> 0]
          /\ total_queries = IF app = "enhanced" THEN n ELSE 0
    /\ vectorstore = None
    /\ processed_files = <<>>
    /\ last = NoObs
    /\ rq = NoProbe

LlmProbe ==
    /\ \E query \in SessionQueries, llm_fails \in BOOLEAN :
       \E p \in { IF app = "enhanced"
                  THEN E_answer_with_llm(query, chat_history, llm_fails)
                  ELSE I_answer_with_llm(query, chat_history, llm_fails) } :
          last' = [NoObs EXCEPT !.op = "answer_with_llm",
                     !.query = query,
                     !.result = [NoResult EXCEPT !.answer = p.answer],
                     !.raised = p.raised,
                     !.pipeline = "answer_with_llm",
                     !.calls = p.calls,
                     !.history_before = chat_history]
    /\ UNCHANGED << app, messages, chat_history, vectorstore,
                    processed_files, route_stats, total_queries, rq >>

LlmNext == LlmProbe

LlmSpec == LlmInit /\ [][LlmNext]_vars

(***************************************************************************)
(* Direct calls of answer_with_rag on the index of the session, whatever   *)
(* the router would have decided, after any sequence of processed batches  *)
(***************************************************************************)
\* the uploads before a direct call: two files with text, of three chunks
\* and of one chunk, and a file without text
RagFiles == { f \in Files : f.name \in {"a.pdf", "b.txt", "f.pdf"} }

RagBatches == BatchesOf(RagFiles, MaxFiles)

RagProbe ==
    /\ \E query \in SessionQueries :
       \E fails \in Fails(vectorstore) :
       \E p \in { answer_with_rag(app, query, vectorstore, chat_history,
                                  fails.retriever, fails.docs,
                                  fails.llm[1]) } :
          last' = [NoObs EXCEPT !.op = "answer_with_rag",
                     !.query = query,
                     !.result = [NoResult EXCEPT !.answer = p.answer],
                     !.raised = p.raised,
                     !.has_documents = vectorstore # None,
                     !.pipeline = "answer_with_rag",
                     !.calls = p.calls,
                     !.history_before = chat_history]
    /\ UNCHANGED << app, messages, chat_history, vectorstore,
                    processed_files, route_stats, total_queries, rq >>

RagNext ==
    \/ ProcessDocuments(RagBatches)
    \/ RagProbe

RagSpec == Init /\ [][RagNext]_vars

(***************************************************************************)
(* Direct calls of the two routers on every query, with and without        *)
(* documents, with an empty and a non-empty conversation                   *)
(***************************************************************************)
ProbeHistories ==
    { <<>>,
      << HumanMessage(Q_hello), AIMessage(<< Lit("Hi!") >>) >> }

RouteInit ==
    /\ app = "enhanced"
    /\ SessionInit

RouteProbe ==
    /\ rq.op = "none"
    /\ \E query \in Queries, has_documents \in BOOLEAN,
          history \in ProbeHistories :
        rq' = [op |-> "route_query", query |-> query,
               has_documents |-> has_documents, chat_history |-> history,
               enhanced |-> E_route_query(query, has_documents, history),
               base |-> I_route_query(query, has_documents, history)]
    /\ UNCHANGED << app, messages, chat_history, vectorstore,
                    processed_files, route_stats, total_queries, last >>

RouteNext == RouteProbe

RouteSpec == RouteInit /\ [][RouteNext]_vars

(***************************************************************************)
(* Properties of the routers (checked under RouteSpec)                     *)
(***************************************************************************)
\* the six stage predicates of EnhancedRouter.route_query, in stage order
StageMatches(query, has_documents, history) ==
    LET query_lower == Lower(query) IN
    << \E n \in DOMAIN E_simple_phrases :
            StartsWith(query_lower, E_simple_phrases[n]),
       Len(history) > 0 /\ AnyIn(context_indicators, query_lower),
       \/ AnyIn(math_operators, query)
       \/ /\ AnyIn(math_keywords, query_lower)
          /\ \E i \in DOMAIN query : query[i] \in Digits,
       has_documents /\ AnyIn(doc_keywords, query_lower),
       AnyIn(temporal_words, query_lower)
            /\ AnyIn(realtime_data_types, query_lower),
       AnyIn(E_llm_indicators, query_lower) >>

\* the lowest-numbered matching stage, 7 when none matches
FirstStage(m) ==
    IF \E i \in 1..6 : m[i]
    THEN CHOOSE i \in 1..6 : m[i] /\ \A j \in 1..(i - 1) : ~m[j]
    ELSE 7

StageRoute(stage) ==
    IF stage = 4 THEN "rag" ELSE IF stage = 5 THEN "web" ELSE "llm"

StageConfidence(stage) ==
    IF stage \in 1..3 THEN 100
    ELSE IF stage \in 4..5 THEN 95
    ELSE IF stage = 6 THEN 90
    ELSE 80

ProbedStage == FirstStage(StageMatches(rq.query, rq.has_documents,
                                       rq.chat_history))

\* C1 as stated: route_query returns the decision of the lowest-numbered
\* matching stage (1-3: llm 1.0, 4: rag 0.95, 5: web 0.95, 6: llm 0.9) and,
\* when no stage matches, llm with confidence 0.8 and reason "default"
C1_DecisionTable_default ==
    rq.op = "route_query" =>
        /\ rq.enhanced.route = StageRoute(ProbedStage)
        /\ rq.enhanced.confidence = StageConfidence(ProbedStage)
        /\ ProbedStage = 7 => rq.enhanced.reason = "default"

\* C1 amended: the same decision table, the reason of the fall-through
\* decision being the string "Default"
C1_DecisionTable ==
    rq.op = "route_query" =>
        /\ rq.enhanced.route = StageRoute(ProbedStage)
        /\ rq.enhanced.confidence = StageConfidence(ProbedStage)
        /\ ProbedStage = 7 => rq.enhanced.reason = "Default"

\* a call in which stages 2, 4, 5 and 6 all match and stage 2 decides
C1_Witness ==
    /\ rq.op = "route_query"
    /\ StageMatches(rq.query, rq.has_documents, rq.chat_history)
            = << FALSE, TRUE, FALSE, TRUE, TRUE, TRUE >>
    /\ rq.enhanced = [route |-> "llm", confidence |-> 100,
                      reason |-> "Context reference"]

\* C3: with a non-empty conversation a query containing a continuation
\* marker is routed to llm, whatever the documents and the other keywords;
\* with an empty conversation stage 2 does not catch it
C3_ContinuationPriority ==
    (rq.op = "route_query"
        /\ AnyIn(context_indicators, Lower(rq.query))) =>
        /\ Len(rq.chat_history) > 0 =>
              rq.enhanced.route = "llm" /\ rq.base = "llm"
        /\ Len(rq.chat_history) = 0 =>
              /\ rq.enhanced.reason # "Context reference"
              /\ (/\ rq.has_documents
                  /\ AnyIn(doc_keywords, Lower(rq.query))
                  /\ ~is_mathematical(rq.query)
                  /\ rq.enhanced.reason # "Conversational")
                    => rq.enhanced.route = "rag" /\ rq.base = "rag"

\* a continuation query that also names a document, asked with documents
\* loaded and a conversation under way, and decided by stage 2
C3_Witness ==
    /\ rq.op = "route_query"
    /\ Len(rq.chat_history) > 0
    /\ rq.has_documents
    /\ AnyIn(context_indicators, Lower(rq.query))
    /\ AnyIn(doc_keywords, Lower(rq.query))
    /\ rq.enhanced.reason = "Context reference"
    /\ rq.enhanced.route = "llm"
    /\ rq.base = "llm"

\* C4: both routers return web only for a query that contains a temporal
\* marker and a volatile-data keyword
C4_WebNeedsBoth ==
    rq.op = "route_query" =>
        LET both == /\ AnyIn(temporal_words, Lower(rq.query))
                    /\ AnyIn(realtime_data_types, Lower(rq.query))
        IN  /\ rq.enhanced.route = "web" => both
            /\ rq.base = "web" => both

\* a query with a temporal marker and no volatile-data keyword, which no
\* earlier stage catches, is not routed to web
C4_Witness ==
    /\ rq.op = "route_query"
    /\ rq.query = Q_current
    /\ AnyIn(temporal_words, Lower(rq.query))
    /\ ~AnyIn(realtime_data_types, Lower(rq.query))
    /\ rq.enhanced = [route |-> "llm", confidence |-> 80, reason |-> "Default"]
    /\ rq.base = "llm"

(***************************************************************************)
(* Properties of the session (checked under Spec)                          *)
(***************************************************************************)
\* a collaborator (language model, retriever, search tool) raised during
\* the last process_query
CollaboratorFailed ==
    \E i \in DOMAIN last.calls :
        /\ last.calls[i].fn \in {"llm.invoke", "retriever.invoke",
                                 "search_tool.run"}
        /\ ~last.calls[i].ok

\* the answer carries the text of an exception
HasExceptionText(answer) == \E i \in DOMAIN answer : answer[i].kind = "exc"

\* the web pipeline ran and its search tool raised
SearchRaised ==
    /\ last.op = "process_query"
    /\ last.pipeline = "answer_with_web"
    /\ last.calls[1].fn = "search_tool.run"
    /\ ~last.calls[1].ok

\* C2: a query processed while the index is null is never given route rag
\* and answer_with_rag is never called with a null index; route rag is
\* returned only with an index and a document keyword in the query
C2_NoRagWithoutIndex ==
    last.op = "process_query" =>
        /\ vectorstore = None =>
              /\ last.result.route # "rag"
              /\ last.pipeline # "answer_with_rag"
        /\ last.result.route = "rag" =>
              /\ vectorstore # None
              /\ last.has_documents
              /\ AnyIn(doc_keywords, Lower(last.query))

\* a document query processed after a batch without text left no index
C2_Witness ==
    /\ last.op = "process_query"
    /\ processed_files # <<>>
    /\ vectorstore = None
    /\ AnyIn(doc_keywords, Lower(last.query))
    /\ ~last.raised
    /\ last.result.route = "llm"
    /\ last.pipeline = "answer_with_llm"

\* C5: every process_query either appends one User turn followed by one
\* Assistant turn to the conversation or leaves the conversation unchanged
C5_Atomic ==
    [][ last'.op = "process_query" =>
          \/ chat_history' = chat_history
          \/ /\ Len(chat_history') = Len(chat_history) + 2
             /\ SubSeq(chat_history', 1, Len(chat_history)) = chat_history
             /\ chat_history'[Len(chat_history) + 1] = HumanMessage(last'.query)
             /\ chat_history'[Len(chat_history) + 2].role = "ai" ]_vars

\* a call that failed (the language model raised, base variant) and left
\* the earlier turns of the conversation as they were
C5_Witness ==
    /\ last.op = "process_query"
    /\ last.raised
    /\ CollaboratorFailed
    /\ Len(chat_history) = 2
    /\ chat_history = last.history_before

\* C6: EnhancedChatbotManager.process_query lets no exception escape and
\* returns a structured result; a failure inside a pipeline never gives
\* the route "error"
C6_NoEscape ==
    (app = "enhanced" /\ last.op = "process_query") =>
        /\ ~last.raised
        /\ last.result.route \in {"llm", "rag", "web", "error"}
        /\ last.result.answer # <<>>
        /\ last.result.reason # ""
        /\ CollaboratorFailed => last.result.route # "error"

\* the language model raised on the llm route and the result is the
\* apology, with route llm
C6_Witness ==
    /\ app = "enhanced"
    /\ last.op = "process_query"
    /\ last.pipeline = "answer_with_llm"
    /\ CollaboratorFailed
    /\ ~last.raised
    /\ last.result.route = "llm"
    /\ last.result.answer
          = << Lit("I apologize, but I encountered an error: "), Exc("llm") >>

\* C7: in the base variant a failing language model on the llm route
\* yields an answer describing the error, no exception leaves
\* process_query, and both turns of the query are recorded
C7_BaseLlmFailureAnswered ==
    (/\ app = "base"
     /\ last.op = "process_query"
     /\ last.pipeline = "answer_with_llm"
     /\ CollaboratorFailed) =>
        /\ ~last.raised
        /\ HasExceptionText(last.result.answer)
        /\ chat_history = last.history_before
              \o << HumanMessage(last.query), AIMessage(last.result.answer) >>

\* C8: when the search tool raises, the enhanced web pipeline calls the LLM
\* pipeline on the query with the note appended, and process_query returns
\* exactly what that call returned
C8_WebFallback ==
    (app = "enhanced" /\ SearchRaised) =>
        /\ Len(last.calls) = 3
        /\ last.calls[2].fn = "answer_with_llm"
        /\ last.calls[2].arg = last.query \o WebNote
        /\ last.calls[3].fn = "llm.invoke"
        /\ last.calls[3].prompt.query = last.query \o WebNote
        /\ last.calls[3].prompt.template \in {"first", "history"}
        /\ last.result.answer = last.calls[2].ret
        /\ last.calls[3].ok => last.result.answer = last.calls[3].ret

\* the search tool raised and the answer is the model's response to the
\* annotated query
C8_Witness ==
    /\ app = "enhanced"
    /\ SearchRaised
    /\ last.query = Q_stock
    /\ last.calls[3].ok
    /\ last.result.answer = << Resp(last.calls[3].prompt) >>
    /\ last.calls[3].prompt.query = Q_stock \o WebNote

\* C9: in the base variant, when the search tool raises (and the language
\* model answers), the answer of process_query is the LLM pipeline's
\* output and carries no text of the exception
C9_BaseWebFallbackClean ==
    (app = "base" /\ SearchRaised /\ ~last.raised) =>
        /\ last.calls[2].fn = "answer_with_llm"
        /\ last.result.answer = last.calls[2].ret
        /\ ~HasExceptionText(last.result.answer)

\* the index build of the last processed batch failed / succeeded
AfterFailedBuild == processed_files # <<>> /\ vectorstore = None
AfterBuild       == processed_files # <<>> /\ vectorstore # None

\* C10 as stated: after a batch without extractable text the query
\* "According to the document, what is the conclusion?" is answered with
\* the fixed no-documents message; after a successful build it is routed
\* to rag
C10_NoDocumentsMessage ==
    (app = "enhanced" /\ last.op = "process_query"
        /\ last.query = Q_according) =>
        /\ AfterFailedBuild =>
              last.result.answer = NoDocumentsMessage("enhanced")
        /\ AfterBuild => last.result.route = "rag"

\* C10 amended: after a batch without extractable text the query is not
\* routed to rag but answered by the LLM pipeline, and process_query never
\* returns the no-documents message; after a successful build the query is
\* routed to rag
C10_FallsBackToLlm ==
    (app = "enhanced" /\ last.op = "process_query") =>
        /\ last.result.answer # NoDocumentsMessage("enhanced")
        /\ last.query = Q_according =>
            /\ AfterFailedBuild =>
                  /\ last.result.route = "llm"
                  /\ last.pipeline = "answer_with_llm"
                  /\ Len(last.calls) = 1
                  /\ last.calls[1].fn = "llm.invoke"
                  /\ last.calls[1].prompt.query = Q_according
                  /\ last.calls[1].ok =>
                        last.result.answer = << Resp(last.calls[1].prompt) >>
            /\ AfterBuild =>
                  /\ last.result.route = "rag"
                  /\ last.pipeline = "answer_with_rag"

\* the document query asked after a batch without text, answered by the
\* language model
C10_Witness ==
    /\ app = "enhanced"
    /\ last.op = "process_query"
    /\ last.query = Q_according
    /\ AfterFailedBuild
    /\ last.result.route = "llm"
    /\ last.calls[1].ok
    /\ last.result.answer = << Resp(last.calls[1].prompt) >>

(***************************************************************************)
(* Properties of document processing (checked under DocSpec)               *)
(***************************************************************************)
\* the file yields text under a variant: its bytes were written, its
\* extension is one the variant loads, and the loader returned Documents
YieldsText(variant, f) ==
    /\ f.write = "ok"
    /\ f.load = "text"
    /\ (IF variant = "enhanced" THEN Lower(f.ext) ELSE f.ext)
            \in {Ext_pdf, Ext_txt, Ext_docx}

\* the files of a batch, and how many chunks of an index come from a file
FilesOf(batch) == { batch[i] : i \in DOMAIN batch }
ChunksFrom(vs, name) == Cardinality({ i \in DOMAIN vs.chunks : vs.chunks[i] = name })

\* the index holds the chunks of the text-yielding files of the batch, and
\* nothing else; it is null when no file of the batch yields text
IndexIsOf(vs, variant, batch) ==
    /\ (vs = None) <=> ~(\E f \in FilesOf(batch) : YieldsText(variant, f))
    /\ \A f \in Files :
          ChunksFrom(vs, f.name) =
              IF f \in FilesOf(batch) /\ YieldsText(variant, f)
              THEN f.nchunks ELSE 0

\* C11: after every completed process-documents action the index of the
\* session is exactly the index of the batch just processed: no chunk of an
\* earlier batch is retained, and a batch without text leaves a null index
C11_IndexOfLastBatch ==
    (last.op = "process_documents" /\ ~last.raised) =>
        /\ IndexIsOf(vectorstore, app, last.batch)
        /\ processed_files = [ i \in DOMAIN last.batch |-> last.batch[i].name ]

\* a batch without text processed while an index existed: the index is null
C11_Witness ==
    /\ last.op = "process_documents"
    /\ ~last.raised
    /\ last.index_before # None
    /\ \A f \in FilesOf(last.batch) : ~YieldsText(app, f)
    /\ vectorstore = None

\* C12: in both variants a file with an unsupported extension or a file
\* whose parsing fails does not abort the batch: process_documents returns,
\* the remaining files are indexed, and the result is null only when no
\* file of the batch yielded text
C12_BadFileSkipped ==
    (/\ last.op = "process_documents"
     /\ \A f \in FilesOf(last.batch) : f.write = "ok") =>
        /\ ~last.raised
        /\ IndexIsOf(vectorstore, app, last.batch)

(***************************************************************************)
(* Properties of the conversation (checked under Spec)                     *)
(***************************************************************************)
\* s is a prefix of t
IsPrefix(s, t) == Len(s) <= Len(t) /\ SubSeq(t, 1, Len(s)) = s

\* C13: the conversation log only grows by appending: every step other
\* than a clear, and every process_query in particular, leaves the old log
\* a prefix of the new one
C13_AppendOnly ==
    [][ last'.op # "clear" => IsPrefix(chat_history, chat_history') ]_vars

\* a second query was processed and the two turns of the first one are
\* still the first two entries of the log
C13_Witness ==
    /\ last.op = "process_query"
    /\ Len(last.history_before) = 2
    /\ Len(chat_history) = 4
    /\ IsPrefix(last.history_before, chat_history)
    /\ chat_history[1] # chat_history[3]

\* the prompts the LLM pipeline gave to the language model during the last
\* process_query
LlmPipelinePrompts(obs) ==
    { obs.calls[i].prompt : i \in { j \in DOMAIN obs.calls :
          /\ obs.calls[j].fn = "llm.invoke"
          /\ obs.calls[j].prompt.template \in {"first", "history"} } }

\* C14: a clear empties the message list and the conversation log and
\* leaves the index, the processed-file list and the counters as they
\* were; the query processed right after a clear is routed and answered as
\* with an empty conversation: the continuation stage does not fire and
\* the LLM pipeline uses the first-interaction prompt
C14_ClearResets ==
    [][ /\ last'.op = "clear" =>
              /\ messages' = <<>>
              /\ chat_history' = <<>>
              /\ UNCHANGED << vectorstore, processed_files, route_stats,
                              total_queries >>
        /\ (last.op = "clear" /\ last'.op = "process_query") =>
              /\ last'.history_before = <<>>
              /\ last'.result.reason # "Context reference"
              /\ last'.query = Q_summarize_also =>
                    last'.result.route
                        = IF vectorstore # None THEN "rag" ELSE "llm"
              /\ \A prompt \in LlmPipelinePrompts(last') :
                    prompt.template = "first" /\ prompt.history = <<>>
      ]_vars

\* the follow-up "Also summarize the PDF" asked as the first query after a
\* clear (two queries counted, two turns in the log), with an index: it is
\* routed to rag, not taken for a continuation
C14_Witness ==
    /\ app = "enhanced"
    /\ last.op = "process_query"
    /\ last.query = Q_summarize_also
    /\ last.history_before = <<>>
    /\ total_queries = 2
    /\ Len(chat_history) = 2
    /\ vectorstore # None
    /\ last.result.route = "rag"
    /\ last.result.reason = "Document reference"

\* C15: every result process_query returns, and every route tag of an
\* assistant entry of the message list, carries one of the routes llm, rag
\* and web; no other route value is produced
C15_RouteValues ==
    /\ (last.op = "process_query" /\ ~last.raised) =>
            last.result.route \in {"llm", "rag", "web"}
    /\ \A i \in DOMAIN messages :
            messages[i].role = "assistant" =>
                messages[i].route \in {"llm", "rag", "web"}

\* a query whose search tool and language model both raised: the result
\* and the assistant entry of the message list still carry route web
C15_Witness ==
    /\ app = "enhanced"
    /\ last.op = "process_query"
    /\ SearchRaised
    /\ ~last.calls[Len(last.calls)].ok
    /\ last.result.route = "web"
    /\ messages[Len(messages)].role = "assistant"
    /\ messages[Len(messages)].route = "web"

(***************************************************************************)
(* The example queries of test_routing.py (checked under RouteSpec)        *)
(***************************************************************************)
\* the queries test_routing.py lists with the expected route WEB
WebExamples == { Q_latest_ai, Q_weather, Q_tesla, Q_election, Q_news_today }

\* C16: with no documents and an empty conversation, route_query of both
\* routers gives route web to each of the five WEB example queries
C16_WebExamples ==
    (/\ rq.op = "route_query"
     /\ rq.query \in WebExamples
     /\ ~rq.has_documents
     /\ rq.chat_history = <<>>) =>
        /\ rq.enhanced.route = "web"
        /\ rq.base = "web"

(***************************************************************************)
(* Properties of the pipelines inside process_query (checked under Spec)   *)
(***************************************************************************)
\* the positions of the language-model invocations in the trace of the
\* last process_query
LlmInvocations == { i \in DOMAIN last.calls : last.calls[i].fn = "llm.invoke" }

\* C17 as stated: within one process_query the language model is invoked
\* at most once, exactly once on the llm route, so that a failed invocation
\* is never followed by another one
C17_AtMostOnce ==
    last.op = "process_query" =>
        /\ Cardinality(LlmInvocations) <= 1
        /\ last.pipeline = "answer_with_llm" =>
                Cardinality(LlmInvocations) = 1

\* C17 amended: the language model is invoked exactly once on the llm
\* route and at most once on the rag route; on the web route it is invoked
\* once, except that after a successful search a failed synthesis
\* invocation is followed by one invocation of the fallback LLM pipeline,
\* with another prompt; there is never a third invocation
C17_OneFallbackInvocation ==
    last.op = "process_query" =>
        /\ last.pipeline = "answer_with_llm" =>
                Cardinality(LlmInvocations) = 1
        /\ last.pipeline = "answer_with_rag" =>
                /\ Cardinality(LlmInvocations) <= 1
                /\ (LlmInvocations = {}) <=> ~last.calls[1].ok
        /\ last.pipeline = "answer_with_web" =>
                /\ Cardinality(LlmInvocations) \in {1, 2}
                /\ (Cardinality(LlmInvocations) = 2) <=>
                        /\ last.calls[1].ok
                        /\ ~last.calls[2].ok
        /\ \A i, j \in LlmInvocations :
                i < j =>
                    /\ ~last.calls[i].ok
                    /\ last.calls[i].prompt.template = "synthesis"
                    /\ last.calls[j].prompt.template \in {"first", "history"}
                    /\ last.calls[j - 1].fn = "answer_with_llm"

\* the search succeeded, the synthesis invocation raised, and the fallback
\* LLM pipeline invoked the language model a second time
C17_Witness ==
    /\ last.op = "process_query"
    /\ last.pipeline = "answer_with_web"
    /\ Len(last.calls) = 4
    /\ last.calls[1].fn = "search_tool.run" /\ last.calls[1].ok
    /\ last.calls[2].fn = "llm.invoke" /\ ~last.calls[2].ok
    /\ last.calls[3].fn = "answer_with_llm"
    /\ last.calls[4].fn = "llm.invoke" /\ last.calls[4].ok
    /\ ~last.raised

\* C18: a pipeline call leaves the persistent session state as it was, on
\* success and on failure: across a process_query the index and the
\* processed-file list are unchanged, the conversation and the counters
\* change only by what process_query itself does after the pipeline has
\* returned (the two turns, one count), and the history a pipeline puts
\* into its prompt is the conversation before the call, without the
\* current query
C18_PipelinesPure ==
    [][ last'.op = "process_query" =>
          /\ vectorstore' = vectorstore
          /\ processed_files' = processed_files
          /\ \/ /\ chat_history' = chat_history
                /\ route_stats' = route_stats
                /\ total_queries' = total_queries
             \/ /\ ~last'.raised
                /\ chat_history' = chat_history
                      \o << HumanMessage(last'.query),
                            AIMessage(last'.result.answer) >>
                /\ route_stats' =
                      IF app = "enhanced"
                      THEN [route_stats EXCEPT ![last'.result.route] = @ + 1]
                      ELSE route_stats
                /\ total_queries' =
                      IF app = "enhanced" THEN total_queries + 1
                      ELSE total_queries
          /\ \A prompt \in LlmPipelinePrompts(last') :
                /\ Len(prompt.history) = Len(LastN(chat_history, ContextWindow))
                /\ \A i \in DOMAIN prompt.history :
                      prompt.history[i].content
                          = LastN(chat_history, ContextWindow)[i].content
      ]_vars

\* a second query answered by the LLM pipeline: its prompt held the two
\* turns of the first query and nothing of the current one
C18_Witness ==
    /\ last.op = "process_query"
    /\ last.pipeline = "answer_with_llm"
    /\ Len(last.history_before) = 2
    /\ last.calls[1].prompt.template = "history"
    /\ Len(last.calls[1].prompt.history) = 2
    /\ last.calls[1].prompt.history[1].content = last.history_before[1].content
    /\ chat_history = last.history_before
          \o << HumanMessage(last.query), AIMessage(last.result.answer) >>

\* C19: when the retriever or the language model raises inside
\* answer_with_rag, the answer is the "Error accessing documents" message
\* with the text of the exception, the LLM pipeline is not called, and
\* process_query records both turns and reports route rag
C19_RagFailureMessage ==
    (/\ last.op = "process_query"
     /\ last.pipeline = "answer_with_rag"
     /\ CollaboratorFailed) =>
        /\ ~last.raised
        /\ Len(last.result.answer) = 2
        /\ last.result.answer[1] = Lit("Error accessing documents: ")
        /\ last.result.answer[2].kind = "exc"
        /\ \A i \in DOMAIN last.calls :
              /\ last.calls[i].fn # "answer_with_llm"
              /\ last.calls[i].prompt.template \notin {"first", "history"}
        /\ last.result.route = "rag"
        /\ chat_history = last.history_before
              \o << HumanMessage(last.query), AIMessage(last.result.answer) >>
        /\ messages[Len(messages)]
              = [role |-> "assistant", content |-> last.result.answer,
                 route |-> "rag"]

\* the retriever raised on a document question: the error message is the
\* answer and the query is recorded with route rag
C19_Witness ==
    /\ last.op = "process_query"
    /\ last.pipeline = "answer_with_rag"
    /\ Len(last.calls) = 1
    /\ last.calls[1].fn = "retriever.invoke"
    /\ ~last.calls[1].ok
    /\ last.result.answer
          = << Lit("Error accessing documents: "), Exc("retriever") >>
    /\ last.result.route = "rag"
    /\ Len(chat_history) = Len(last.history_before) + 2

(***************************************************************************)
(* Properties of answer_with_rag called directly (checked under RagSpec)   *)
(***************************************************************************)
\* C20: answer_with_rag called with a null index returns the fixed
\* no-documents message of its variant and invokes neither the retriever
\* nor the language model
C20_NullIndexMessage ==
    (last.op = "answer_with_rag" /\ vectorstore = None) =>
        /\ ~last.raised
        /\ last.result.answer =
              << Lit(IF app = "enhanced"
                     THEN "No documents available. Please upload documents first."
                     ELSE "No documents have been uploaded yet. Please upload documents to use RAG.") >>
        /\ last.calls = <<>>

\* answer_with_rag called on a document question after a batch without
\* text had left a null index
C20_Witness ==
    /\ last.op = "answer_with_rag"
    /\ vectorstore = None
    /\ processed_files # <<>>
    /\ last.query = Q_according
    /\ Len(last.result.answer) = 1
    /\ last.result.answer[1].kind = "lit"
    /\ last.calls = <<>>

(***************************************************************************)
(* Temporary files of process_documents (checked under DocSpec)            *)
(***************************************************************************)
\* C21: whatever step fails for a file (writing the temporary file,
\* selecting the loader, parsing), no temporary file created by
\* process_documents exists any more once it has returned or raised
C21_NoTempFileLeft ==
    last.op = "process_documents" => last.leaked = {}

(***************************************************************************)
(* Properties of answer_with_llm called directly (checked under LlmSpec)   *)
(***************************************************************************)
\* the number of turns the prompt must carry for a conversation of n turns
WindowSize(n) == IF n < 12 THEN n ELSE 12

\* C22: the history in the prompt of answer_with_llm is exactly the last
\* min(12, n) turns of the n-turn conversation, rendered in conversation
\* order as User/Assistant lines, and the first-interaction prompt is used
\* if and only if the conversation is empty
C22_LastTwelveTurns ==
    last.op = "answer_with_llm" =>
        LET prompt == last.calls[1].prompt
            n == Len(chat_history)
            m == WindowSize(n)
        IN  /\ Len(last.calls) = 1
            /\ last.calls[1].fn = "llm.invoke"
            /\ prompt.query = last.query
            /\ Len(prompt.history) = m
            /\ \A i \in 1..m :
                  /\ prompt.history[i].content = chat_history[n - m + i].content
                  /\ prompt.history[i].who =
                        IF chat_history[n - m + i].role = "human"
                        THEN "User" ELSE "Assistant"
            /\ (prompt.template = "first") <=> (n = 0)
            /\ (prompt.template = "history") <=> (n > 0)

\* a conversation of 14 turns whose first and seventh user turns differ:
\* the prompt carries 12 turns and starts with the third turn
C22_Witness ==
    /\ last.op = "answer_with_llm"
    /\ Len(chat_history) = 14
    /\ chat_history[1] # chat_history[13]
    /\ chat_history[1] # chat_history[3]
    /\ Len(last.calls[1].prompt.history) = 12
    /\ last.calls[1].prompt.history[1].content = chat_history[3].content
    /\ last.calls[1].prompt.history[12].content = chat_history[14].content
    /\ last.calls[1].prompt.template = "history"

(***************************************************************************)
(* The source list of answer_with_rag (checked under RagSpec)              *)
(***************************************************************************)
\* the chunks the retriever returned to the last answer_with_rag that got
\* an answer from the language model
RetrievedDocs == last.calls[2].prompt.chunks

\* the positions of the retrieved chunks at which a source appears for the
\* first time with fewer than 3 distinct sources before it
FirstRetrievals(docs) ==
    { i \in DOMAIN docs :
        /\ \A j \in 1..(i - 1) : docs[j] # docs[i]
        /\ Cardinality({ docs[j] : j \in 1..(i - 1) }) < 3 }

\* the source identifiers listed in an answer, in the order of the answer
ListedSources(answer) ==
    LET lines == SelectSeq(answer, LAMBDA piece : piece.kind = "src")
    IN  [ k \in 1..Len(lines) |-> lines[k].text ]

\* C23: the source list of a RAG answer is the sequence of the first
\* up-to-3 distinct sources among the retrieved chunks (up to 4), each once,
\* in order of first retrieval; a source first seen in any retrieved chunk
\* is listed whenever fewer than 3 distinct sources precede it
C23_SourceList ==
    (/\ last.op = "answer_with_rag"
     /\ Len(last.calls) = 2
     /\ last.calls[2].ok) =>
        LET docs == RetrievedDocs
            first == FirstRetrievals(docs)
            listed == ListedSources(last.result.answer)
        IN  /\ Len(listed) = Cardinality(first)
            /\ \A k \in 1..Len(listed) :
                  listed[k] = docs[CHOOSE i \in first :
                                Cardinality({ j \in first : j < i }) = k - 1]

(***************************************************************************)
(* Properties of the counters and of the two lists (checked under Spec)    *)
(***************************************************************************)
\* C24: in the enhanced variant total_queries is always the sum of the
\* three route counters; a process_query returning an error result
\* increments none of them; reset-stats zeroes all four and leaves the
\* conversation, the message list and the index unchanged
C24_CountersAgree ==
    /\ [](app = "enhanced" =>
            total_queries = route_stats.llm + route_stats.rag + route_stats.web)
    /\ [][ app = "enhanced" =>
              /\ (last'.op = "process_query" /\ last'.result.route = "error") =>
                    UNCHANGED << route_stats, total_queries >>
              /\ last'.op = "reset_stats" =>
                    /\ route_stats' = [llm |-> 0, rag |-> 0, web |-> 0]
                    /\ total_queries' = 0
                    /\ UNCHANGED << messages, chat_history, vectorstore,
                                    processed_files >>
          ]_vars

\* statistics reset after two queries on different routes: the counters
\* are zero, the conversation and the index are still there
C24_Witness ==
    /\ app = "enhanced"
    /\ last.op = "reset_stats"
    /\ total_queries = 0
    /\ route_stats = [llm |-> 0, rag |-> 0, web |-> 0]
    /\ Len(chat_history) = 4
    /\ vectorstore # None

\* C25: the chat history always has even length and alternates User,
\* Assistant, starting with a User turn; hence every window of the last
\* 2, 4, ... turns, and so the 12-turn context window of the LLM pipeline,
\* begins with a User turn
C25_Alternation ==
    /\ Len(chat_history) % 2 = 0
    /\ \A i \in DOMAIN chat_history :
          chat_history[i].role = IF i % 2 = 1 THEN "human" ELSE "ai"
    /\ \A w \in { ContextWindow } \cup { 2 * k : k \in 1..Len(chat_history) } :
          chat_history # <<>> => LastN(chat_history, w)[1].role = "human"

\* a query whose pipeline raised after an answered one (base variant): the
\* message list shows three entries, the chat history still holds one
\* complete exchange
C25_Witness ==
    /\ last.op = "process_query"
    /\ last.raised
    /\ Len(messages) = 3
    /\ Len(chat_history) = 2
    /\ chat_history[1].role = "human"
    /\ chat_history[2].role = "ai"

\* the role a displayed message has in the conversation memory
MemoryRole(role) == IF role = "user" THEN "human" ELSE "ai"

\* C26: the displayed message list and the chat history stay in step: after
\* every completed chat interaction, one that raised included, both hold the
\* same number of turns with the same roles and texts in the same order
C26_InStep ==
    last.op = "process_query" =>
        /\ Len(messages) = Len(chat_history)
        /\ \A i \in DOMAIN messages :
              i \in DOMAIN chat_history =>
                 /\ chat_history[i].role = MemoryRole(messages[i].role)
                 /\ chat_history[i].content = messages[i].content

\* C27: in every reachable session state the list of processed documents
\* is non-empty exactly when a vector index exists, and a query processed
\* while the list names files is classified with hasDocuments = true
C27_FilesIffIndex ==
    /\ (processed_files # <<>>) <=> (vectorstore # None)
    /\ (last.op = "process_query" /\ processed_files # <<>>)
          => last.has_documents

\* the answer of the last query was produced by the LLM pipeline, called by
\* process_query or by the fallback of the web pipeline
LlmPipelineAnswered ==
    /\ last.op = "process_query"
    /\ ~last.raised
    /\ \/ last.pipeline = "answer_with_llm"
       \/ \E i \in DOMAIN last.calls : last.calls[i].fn = "answer_with_llm"

\* C28 as stated: the reported route names the pipeline that produced the
\* answer: whenever the LLM pipeline produced the answer text, the reported
\* route is llm
C28_RouteNamesProducer ==
    LlmPipelineAnswered => last.result.route = "llm"

\* the last handler run was a process_query that returned a result
LastAnswered == last.op = "process_query" /\ ~last.raised

\* what holds of the last answered query
RouteNamesDispatched ==
    /\ last.pipeline = PipelineOf(last.result.route)
    /\ messages[Len(messages)].role = "assistant"
    /\ messages[Len(messages)].route = last.result.route
    /\ LlmPipelineAnswered => last.result.route \in {"llm", "web"}
    /\ (LlmPipelineAnswered /\ last.result.route = "web") <=>
          /\ last.pipeline = "answer_with_web"
          /\ \/ ~last.calls[1].ok
             \/ ~last.calls[2].ok

\* C28 (amended): the route reported by process_query, shown on the
\* assistant turn and counted in route_stats, names the pipeline that
\* process_query dispatched to; an answer produced by the LLM pipeline is
\* reported as llm, or as web exactly when the web pipeline failed and fell
\* back to the LLM pipeline
C28_RouteNamesDispatched ==
    /\ [](LastAnswered => RouteNamesDispatched)
    /\ [][ (app = "enhanced" /\ LastAnswered' /\ messages' # messages) =>
              route_stats' = [route_stats EXCEPT
                                ![last'.result.route] = @ + 1] ]_vars

\* a web query whose search failed, answered by the LLM pipeline and
\* reported, shown and counted as web
C28_Witness ==
    /\ app = "enhanced"
    /\ LlmPipelineAnswered
    /\ last.pipeline = "answer_with_web"
    /\ ~last.calls[1].ok
    /\ last.result.route = "web"
    /\ messages[Len(messages)].route = "web"
    /\ route_stats["web"] = 1
    /\ route_stats["llm"] = 0

\* C29: the two routers agree on the route: for every query, hasDocuments
\* flag and conversation, IntelligentRouter.route_query returns the route
\* field of EnhancedRouter.route_query
C29_RoutersAgree ==
    rq.op = "route_query" => rq.base = rq.enhanced.route

====
